---- MODULE Spec2Model ----
(***************************************************************************)
(* Model of the input-validation layer of gmt-python / pygmt:              *)
(*   pygmt/datasets/earth_relief.py  load_earth_relief,                    *)
(*                                   _is_valid_resolution,                 *)
(*                                   _shape_from_resolution                *)
(*   the input classifier (data_kind) and the surface operation that the   *)
(*   tests in gmt/tests/test_surface.py exercise.                          *)
(*                                                                         *)
(* Python strings are sequences of one-character strings, so formatting    *)
(* (f"{res:02d}m"), indexing (resolution[2]), slicing (resolution[:2]) and *)
(* parsing (int(...)) are computed and not assumed.                        *)
(***************************************************************************)
EXTENDS Integers, Sequences, FiniteSets, TLC

VARIABLES
    op,            \* the function being called, "idle" between calls
    pc,            \* position inside the call
    resolution,    \* argument: resolution code (sequence of characters)
    registration,  \* argument: registration mode (PyNone or PyStr(..))
    reg,           \* load_earth_relief's local reg (sequence of characters)
    seconds,       \* _shape_from_resolution's local seconds (Unassigned before)
    shape,         \* returned (nlat, nlon), <<>> when nothing was returned
    err,           \* the exception that ended the call, "none" otherwise
    trace,         \* validations passed and collaborators invoked, in order
    fname,         \* the dataset name handed to which()
    grid,          \* the DataArray load_earth_relief works on
    data, x, y, z, \* arguments of surface / data_kind
    kind           \* the classifier's answer, "none" before

vars == <<op, pc, resolution, registration, reg, seconds, shape, err, trace,
          fname, grid, data, x, y, z, kind>>

(***************************************************************************)
(* Bounds of the model                                                     *)
(***************************************************************************)
MaxLen == 3        \* longest resolution string tried
MaxVecLen == 2     \* longest x / y / z vector tried

Chars == {"0", "1", "2", "3", "4", "5", "6", "d", "m", "s"}

\* every string of at most MaxLen characters over Chars
ResolutionInputs == UNION {[1..n -> Chars] : n \in 0..MaxLen}

(***************************************************************************)
(* Python values                                                           *)
(***************************************************************************)
PyNone == [isNone |-> TRUE, val |-> <<>>]
PyStr(s) == [isNone |-> FALSE, val |-> s]

\* bool(v) for None and strings: None and "" are falsy
Truthy(v) == ~v.isNone /\ Len(v.val) > 0

Unassigned == -1

RegistrationInputs ==
    { PyNone,
      PyStr(<<"p", "i", "x", "e", "l">>),
      PyStr(<<"g", "r", "i", "d", "l", "i", "n", "e">>),
      PyStr(<<"f", "o", "o">>),
      PyStr(<<"p">>),
      PyStr(<<>>) }

DigitChar(n) ==
    CASE n = 0 -> "0" [] n = 1 -> "1" [] n = 2 -> "2" [] n = 3 -> "3"
      [] n = 4 -> "4" [] n = 5 -> "5" [] n = 6 -> "6" [] n = 7 -> "7"
      [] n = 8 -> "8" [] n = 9 -> "9"

\* value of a decimal digit character, -1 for any other character
CharDigit(c) ==
    CASE c = "0" -> 0 [] c = "1" -> 1 [] c = "2" -> 2 [] c = "3" -> 3
      [] c = "4" -> 4 [] c = "5" -> 5 [] c = "6" -> 6 [] c = "7" -> 7
      [] c = "8" -> 8 [] c = "9" -> 9 [] OTHER -> -1

RECURSIVE Decimal(_)
\* str(n) for n >= 0
Decimal(n) == IF n < 10 THEN <<DigitChar(n)>>
              ELSE Decimal(n \div 10) \o <<DigitChar(n % 10)>>

\* f"{n:02d}": decimal, zero-padded on the left to width 2
Format02d(n) == IF Len(Decimal(n)) < 2 THEN <<"0">> \o Decimal(n) ELSE Decimal(n)

RECURSIVE ParseInt(_)
\* int(s) for a string of digits; -1 stands for ValueError
ParseInt(s) ==
    IF Len(s) = 0 THEN -1
    ELSE LET d == CharDigit(s[Len(s)])
         IN  IF d < 0 THEN -1
             ELSE IF Len(s) = 1 THEN d
             ELSE LET r == ParseInt(SubSeq(s, 1, Len(s) - 1))
                  IN  IF r < 0 THEN -1 ELSE 10 * r + d

\* x in list
InList(v, list) == \E i \in 1..Len(list) : list[i] = v

(***************************************************************************)
(* _is_valid_resolution                                                    *)
(***************************************************************************)
\* fault variant: the 60-minute entry is left out of the list
MinuteValuesNo60 == <<30, 20, 15, 10, 6, 5, 4, 3, 2, 1>>

MinuteValues == <<60, 30, 20, 15, 10, 6, 5, 4, 3, 2, 1>>

SecondValues == <<30, 15>>

valid_resolutions ==
    << <<"0", "1", "d">> >>
    \o [i \in 1..Len(MinuteValues) |-> Format02d(MinuteValues[i]) \o <<"m">>]
    \o [i \in 1..Len(SecondValues) |-> Format02d(SecondValues[i]) \o <<"s">>]

\* fault variant: the membership test never raises
NeverRaises(res) == "none"

\* the exception _is_valid_resolution(res) raises, "none" when it returns
_is_valid_resolution(res) ==
    IF ~InList(res, valid_resolutions) THEN "GMTInvalidInput" ELSE "none"

(***************************************************************************)
(* _shape_from_resolution                                                  *)
(***************************************************************************)
\* the local seconds after the if/elif chain on unit = resolution[2];
\* Unassigned when no branch is taken
SecondsOfArc(res) ==
    LET unit == res[3]
        magnitude == ParseInt(SubSeq(res, 1, 2))
    IN  IF unit = "d" THEN magnitude * 60 * 60
        ELSE IF unit = "m" THEN magnitude * 60
        ELSE IF unit = "s" THEN magnitude
        ELSE Unassigned

\* fault variant: the boundary sample is not counted
ShapeNoPlusOne(secs) == <<(180 * 60 * 60) \div secs, (360 * 60 * 60) \div secs>>

\* fault variant: latitude and longitude spans exchanged
ShapeSwapped(secs) == <<(360 * 60 * 60) \div secs + 1, (180 * 60 * 60) \div secs + 1>>

\* (nlat, nlon) for a positive number of seconds of arc
ShapeOf(secs) == <<(180 * 60 * 60) \div secs + 1, (360 * 60 * 60) \div secs + 1>>

\* outcome of _shape_from_resolution(res): exception, seconds and result
_shape_from_resolution(res) ==
    IF _is_valid_resolution(res) # "none"
    THEN [err |-> _is_valid_resolution(res), seconds |-> Unassigned, shape |-> <<>>]
    ELSE IF Len(res) < 3
    THEN [err |-> "IndexError", seconds |-> Unassigned, shape |-> <<>>]
    ELSE IF res[3] \in {"d", "m", "s"} /\ ParseInt(SubSeq(res, 1, 2)) < 0
    THEN [err |-> "ValueError", seconds |-> Unassigned, shape |-> <<>>]
    ELSE IF SecondsOfArc(res) = Unassigned
    THEN [err |-> "UnboundLocalError", seconds |-> Unassigned, shape |-> <<>>]
    ELSE IF SecondsOfArc(res) = 0
    THEN [err |-> "ZeroDivisionError", seconds |-> 0, shape |-> <<>>]
    ELSE [err |-> "none", seconds |-> SecondsOfArc(res),
          shape |-> ShapeOf(SecondsOfArc(res))]

(***************************************************************************)
(* load_earth_relief: the registration branch                              *)
(***************************************************************************)
\* fault variant: the else branch at line 49 is never taken
AcceptsAnyRegistration(mode) == TRUE

\* registration in ("pixel", "gridline", None)
RegistrationAccepted(mode) ==
    \/ mode = PyStr(<<"p", "i", "x", "e", "l">>)
    \/ mode = PyStr(<<"g", "r", "i", "d", "l", "i", "n", "e">>)
    \/ mode = PyNone

\* fault variant: the suffix is built without its underscore
SuffixNoUnderscore(mode) == IF Truthy(mode) THEN <<mode.val[1]>> ELSE <<>>

\* f"_{registration[0]}" if registration else ""
RegSuffix(mode) == IF Truthy(mode) THEN <<"_", mode.val[1]>> ELSE <<>>

\* outcome of the branch at lines 46-55: exception and the suffix reg
resolve_registration(mode) ==
    IF RegistrationAccepted(mode)
    THEN [err |-> "none", reg |-> RegSuffix(mode)]
    ELSE [err |-> "GMTInvalidInput", reg |-> <<>>]

\* f"@earth_relief_{resolution}{reg}"
DatasetName(res, suffix) == <<"@earth_relief_">> \o res \o suffix

(***************************************************************************)
(* The input classifier and the surface operation                          *)
(***************************************************************************)
Absent == 0        \* an x / y / z argument that was not given (None)

DataInputs == {"None", "str", "DataArray", "ndarray"}
VectorInputs == {Absent} \cup (1..MaxVecLen)    \* None, or a vector's length

\* fault variant: a string is not told apart from a plain array
ClassifyStrAsMatrix(d, xx, yy, zz) ==
    IF d # "None" /\ (xx # Absent \/ yy # Absent \/ zz # Absent)
    THEN [err |-> "GMTInvalidInput", kind |-> "none"]
    ELSE IF d = "DataArray" THEN [err |-> "none", kind |-> "grid"]
    ELSE IF d # "None" THEN [err |-> "none", kind |-> "matrix"]
    ELSE IF xx # Absent /\ yy # Absent /\ xx = yy
    THEN [err |-> "none", kind |-> "vectors"]
    ELSE [err |-> "GMTInvalidInput", kind |-> "none"]

\* fault variant: the arguments are not checked against each other
ClassifyByDataOnly(d, xx, yy, zz) ==
    IF d = "str" THEN [err |-> "none", kind |-> "file"]
    ELSE IF d = "DataArray" THEN [err |-> "none", kind |-> "grid"]
    ELSE IF d = "ndarray" THEN [err |-> "none", kind |-> "matrix"]
    ELSE IF xx # Absent /\ yy # Absent /\ xx = yy
    THEN [err |-> "none", kind |-> "vectors"]
    ELSE [err |-> "GMTInvalidInput", kind |-> "none"]

\* classify(data, x, y, z): exception and kind
data_kind(d, xx, yy, zz) ==
    IF d # "None" /\ (xx # Absent \/ yy # Absent \/ zz # Absent)
    THEN [err |-> "GMTInvalidInput", kind |-> "none"]
    ELSE IF d = "str" THEN [err |-> "none", kind |-> "file"]
    ELSE IF d = "DataArray" THEN [err |-> "none", kind |-> "grid"]
    ELSE IF d = "ndarray" THEN [err |-> "none", kind |-> "matrix"]
    ELSE IF xx # Absent /\ yy # Absent /\ xx = yy
    THEN [err |-> "none", kind |-> "vectors"]
    ELSE [err |-> "GMTInvalidInput", kind |-> "none"]

\* fault variant: surface hands every classified input to the engine
SurfaceAcceptsAll(k, zz) == "none"

\* surface's own check of the classified input: the exception it raises
SurfaceRejects(k, zz) ==
    IF k = "vectors" /\ zz = Absent THEN "GMTInvalidInput"
    ELSE IF k \notin {"file", "matrix", "vectors"} THEN "GMTInvalidInput"
    ELSE "none"

(***************************************************************************)
(* State machine                                                           *)
(***************************************************************************)
NoGrid == [loaded |-> FALSE, name |-> "", attrs |-> {}, coords |-> {}]

Init ==
    /\ op = "idle" /\ pc = "idle"
    /\ resolution = <<>> /\ registration = PyNone /\ reg = <<>>
    /\ seconds = Unassigned /\ shape = <<>> /\ err = "none" /\ trace = <<>>
    /\ fname = <<>> /\ grid = NoGrid
    /\ data = "None" /\ x = Absent /\ y = Absent /\ z = Absent /\ kind = "none"

\* load_earth_relief(resolution=res, registration=mode) is entered, for
\* every string res and every mode tried
CallLoad ==
    /\ pc = "idle"
    /\ \E res \in ResolutionInputs, mode \in RegistrationInputs :
      /\ op' = "load_earth_relief" /\ pc' = "validate"
      /\ resolution' = res /\ registration' = mode
      /\ UNCHANGED <<reg, seconds, shape, err, trace, fname, grid,
                     data, x, y, z, kind>>

\* line 44
LoadValidate ==
    /\ op = "load_earth_relief" /\ pc = "validate"
    /\ IF _is_valid_resolution(resolution) # "none"
       THEN /\ err' = _is_valid_resolution(resolution)
            /\ pc' = "done"
            /\ UNCHANGED trace
       ELSE /\ trace' = Append(trace, "resolution_ok")
            /\ pc' = "registration"
            /\ UNCHANGED err
    /\ UNCHANGED <<op, resolution, registration, reg, seconds, shape, fname,
                   grid, data, x, y, z, kind>>

\* lines 46-55
LoadRegistration ==
    /\ op = "load_earth_relief" /\ pc = "registration"
    /\ LET r == resolve_registration(registration)
       IN  IF r.err # "none"
           THEN /\ err' = r.err
                /\ pc' = "done"
                /\ UNCHANGED <<reg, trace>>
           ELSE /\ reg' = r.reg
                /\ trace' = Append(trace, "registration_ok")
                /\ pc' = "which"
                /\ UNCHANGED err
    /\ UNCHANGED <<op, resolution, registration, seconds, shape, fname,
                   grid, data, x, y, z, kind>>

\* line 57: the caching collaborator, which may fail
LoadWhich ==
    /\ op = "load_earth_relief" /\ pc = "which"
    /\ fname' = DatasetName(resolution, reg)
    /\ trace' = Append(trace, "which")
    /\ \E ok \in BOOLEAN :
         IF ok THEN pc' = "open" /\ UNCHANGED err
               ELSE pc' = "done" /\ err' = "FileNotFoundError"
    /\ UNCHANGED <<op, resolution, registration, reg, seconds, shape,
                   grid, data, x, y, z, kind>>

\* line 58: the array-loading collaborator; the file decides which
\* attributes the array and its coordinates carry
LoadOpen ==
    /\ op = "load_earth_relief" /\ pc = "open"
    /\ trace' = Append(trace, "open_dataarray")
    /\ \/ /\ pc' = "done" /\ err' = "OSError"
          /\ UNCHANGED grid
       \/ /\ \E a \in SUBSET {"actual_range"}, c \in SUBSET {"lat", "lon"} :
               grid' = [loaded |-> TRUE, name |-> "z", attrs |-> a, coords |-> c]
          /\ pc' = "metadata"
          /\ UNCHANGED err
    /\ UNCHANGED <<op, resolution, registration, reg, seconds, shape,
                   fname, data, x, y, z, kind>>

GridAttrs == {"long_name", "units", "vertical_datum", "horizontal_datum"}

\* lines 59-71: name and attributes are set, then actual_range is popped
\* from the grid and from each coordinate (lat first); a missing key
\* raises KeyError and leaves what was already changed
LoadMetadata ==
    /\ op = "load_earth_relief" /\ pc = "metadata"
    /\ pc' = "done"
    /\ IF "actual_range" \notin grid.attrs
       THEN /\ grid' = [grid EXCEPT !.name = "elevation",
                                    !.attrs = @ \cup GridAttrs]
            /\ err' = "KeyError"
       ELSE IF "lat" \notin grid.coords
       THEN /\ grid' = [grid EXCEPT !.name = "elevation",
                                    !.attrs = (@ \cup GridAttrs) \ {"actual_range"}]
            /\ err' = "KeyError"
       ELSE IF "lon" \notin grid.coords
       THEN /\ grid' = [grid EXCEPT !.name = "elevation",
                                    !.attrs = (@ \cup GridAttrs) \ {"actual_range"},
                                    !.coords = @ \ {"lat"}]
            /\ err' = "KeyError"
       ELSE /\ grid' = [grid EXCEPT !.name = "elevation",
                                    !.attrs = (@ \cup GridAttrs) \ {"actual_range"},
                                    !.coords = {}]
            /\ UNCHANGED err
    /\ UNCHANGED <<op, resolution, registration, reg, seconds, shape, trace,
                   fname, data, x, y, z, kind>>

\* _is_valid_resolution(res) called on its own
CallValidate ==
    /\ pc = "idle"
    /\ \E res \in ResolutionInputs :
      /\ op' = "_is_valid_resolution" /\ pc' = "done"
      /\ resolution' = res
      /\ err' = _is_valid_resolution(res)
      /\ UNCHANGED <<registration, reg, seconds, shape, trace, fname, grid,
                     data, x, y, z, kind>>

\* _shape_from_resolution(res) called on its own
CallShape ==
    /\ pc = "idle"
    /\ \E res \in ResolutionInputs :
      /\ op' = "_shape_from_resolution" /\ pc' = "done"
      /\ resolution' = res
      /\ LET r == _shape_from_resolution(res)
         IN  err' = r.err /\ seconds' = r.seconds /\ shape' = r.shape
      /\ UNCHANGED <<registration, reg, trace, fname, grid, data, x, y, z, kind>>

\* data_kind(d, xx, yy, zz) called on its own
CallDataKind ==
    /\ pc = "idle"
    /\ \E d \in DataInputs, xx \in VectorInputs, yy \in VectorInputs,
          zz \in VectorInputs :
      /\ op' = "data_kind" /\ pc' = "done"
      /\ data' = d /\ x' = xx /\ y' = yy /\ z' = zz
      /\ LET r == data_kind(d, xx, yy, zz)
         IN  err' = r.err /\ kind' = r.kind
      /\ UNCHANGED <<resolution, registration, reg, seconds, shape, trace,
                     fname, grid>>

\* surface(x=xx, y=yy, z=zz, data=d) is entered
CallSurface ==
    /\ pc = "idle"
    /\ \E d \in DataInputs, xx \in VectorInputs, yy \in VectorInputs,
          zz \in VectorInputs :
      /\ op' = "surface" /\ pc' = "classify"
      /\ data' = d /\ x' = xx /\ y' = yy /\ z' = zz
      /\ UNCHANGED <<resolution, registration, reg, seconds, shape, err, trace,
                     fname, grid, kind>>

\* surface classifies its input and rejects what it cannot grid
SurfaceClassify ==
    /\ op = "surface" /\ pc = "classify"
    /\ LET r == data_kind(data, x, y, z)
       IN  IF r.err # "none"
           THEN err' = r.err /\ pc' = "done" /\ UNCHANGED kind
           ELSE /\ kind' = r.kind
                /\ IF SurfaceRejects(r.kind, z) # "none"
                   THEN err' = SurfaceRejects(r.kind, z) /\ pc' = "done"
                   ELSE pc' = "engine" /\ UNCHANGED err
    /\ UNCHANGED <<op, resolution, registration, reg, seconds, shape, trace,
                   fname, grid, data, x, y, z>>

\* surface invokes the external engine, which may fail
SurfaceEngine ==
    /\ op = "surface" /\ pc = "engine"
    /\ trace' = Append(trace, "engine")
    /\ pc' = "done"
    /\ \E ok \in BOOLEAN : err' = IF ok THEN "none" ELSE "GMTCLibError"
    /\ UNCHANGED <<op, resolution, registration, reg, seconds, shape,
                   fname, grid, data, x, y, z, kind>>

\* the call is over; nothing is kept between calls
Return ==
    /\ pc = "done"
    /\ op' = "idle" /\ pc' = "idle"
    /\ resolution' = <<>> /\ registration' = PyNone /\ reg' = <<>>
    /\ seconds' = Unassigned /\ shape' = <<>> /\ err' = "none" /\ trace' = <<>>
    /\ fname' = <<>> /\ grid' = NoGrid
    /\ data' = "None" /\ x' = Absent /\ y' = Absent /\ z' = Absent
    /\ kind' = "none"

Next ==
    \/ CallLoad
    \/ LoadValidate
    \/ LoadRegistration
    \/ LoadWhich
    \/ LoadOpen
    \/ LoadMetadata
    \/ CallValidate
    \/ CallShape
    \/ CallDataKind
    \/ CallSurface
    \/ SurfaceClassify
    \/ SurfaceEngine
    \/ Return

Spec == Init /\ [][Next]_vars

(***************************************************************************)
(* Properties                                                              *)
(***************************************************************************)
Str3(a, b, c) == <<a, b, c>>

\* the catalog as the specification lists it
Catalog14 ==
    { Str3("0", "1", "d"), Str3("6", "0", "m"), Str3("3", "0", "m"),
      Str3("2", "0", "m"), Str3("1", "5", "m"), Str3("1", "0", "m"),
      Str3("0", "6", "m"), Str3("0", "5", "m"), Str3("0", "4", "m"),
      Str3("0", "3", "m"), Str3("0", "2", "m"), Str3("0", "1", "m"),
      Str3("3", "0", "s"), Str3("1", "5", "s") }

\* the resolutions the docstring of load_earth_relief lists
Documented13 == Catalog14 \ { Str3("6", "0", "m") }

\* seconds of arc of each catalog code, as the specification derives them
ExpectedSeconds(code) ==
    CASE code = Str3("0", "1", "d") -> 3600
      [] code = Str3("6", "0", "m") -> 3600
      [] code = Str3("3", "0", "m") -> 1800
      [] code = Str3("2", "0", "m") -> 1200
      [] code = Str3("1", "5", "m") -> 900
      [] code = Str3("1", "0", "m") -> 600
      [] code = Str3("0", "6", "m") -> 360
      [] code = Str3("0", "5", "m") -> 300
      [] code = Str3("0", "4", "m") -> 240
      [] code = Str3("0", "3", "m") -> 180
      [] code = Str3("0", "2", "m") -> 120
      [] code = Str3("0", "1", "m") -> 60
      [] code = Str3("3", "0", "s") -> 30
      [] code = Str3("1", "5", "s") -> 15

Pixel == PyStr(<<"p", "i", "x", "e", "l">>)
Gridline == PyStr(<<"g", "r", "i", "d", "l", "i", "n", "e">>)

\* a comes before b in the sequence tr
Before(a, b, tr) == \E i, j \in 1..Len(tr) : i < j /\ tr[i] = a /\ tr[j] = b

\* C1: _is_valid_resolution returns without error exactly for the 14
\* catalog strings; every other string, "5m" and "01s" among them, ends in
\* GMTInvalidInput.
C1_ValidIffInCatalog ==
    (op = "_is_valid_resolution" /\ pc = "done") =>
        /\ err \in {"none", "GMTInvalidInput"}
        /\ (err = "none") <=> (resolution \in Catalog14)
        /\ resolution \in {<<"5", "m">>, Str3("0", "1", "s")} => err = "GMTInvalidInput"

C1_Witness ==
    /\ op = "_is_valid_resolution" /\ pc = "done"
    /\ resolution = Str3("0", "1", "s") /\ err = "GMTInvalidInput"

\* C2: in load_earth_relief a resolution outside the catalog or a
\* registration other than pixel, gridline or None ends the call in
\* GMTInvalidInput with neither which nor open_dataarray invoked; and which
\* is invoked only after both validations have passed.
C2_ValidationPrecedesIO ==
    op = "load_earth_relief" =>
        /\ (resolution \notin Catalog14 \/ registration \notin {Pixel, Gridline, PyNone}) =>
              /\ ~InList("which", trace)
              /\ ~InList("open_dataarray", trace)
              /\ pc \in {"validate", "registration", "done"}
              /\ pc = "done" => err = "GMTInvalidInput"
        /\ InList("which", trace) =>
              /\ Before("resolution_ok", "which", trace)
              /\ Before("registration_ok", "which", trace)
        /\ InList("open_dataarray", trace) => Before("which", "open_dataarray", trace)

C2_Witness ==
    /\ op = "load_earth_relief" /\ pc = "done"
    /\ resolution = <<"5", "m">> /\ err = "GMTInvalidInput" /\ trace = <<>>

\* C3: the registration branch of load_earth_relief yields "_p" for
\* "pixel", "_g" for "gridline" and "" for None, and raises GMTInvalidInput
\* for every other mode.
C3_RegistrationSuffix ==
    (op = "load_earth_relief" /\ InList("resolution_ok", trace) /\ pc # "registration") =>
        IF registration \in {Pixel, Gridline, PyNone}
        THEN /\ InList("registration_ok", trace)
             /\ registration = Pixel => reg = <<"_", "p">>
             /\ registration = Gridline => reg = <<"_", "g">>
             /\ registration = PyNone => reg = <<>>
        ELSE /\ err = "GMTInvalidInput" /\ pc = "done"
             /\ ~InList("registration_ok", trace)
             /\ reg = <<>>

C3_Witness ==
    /\ op = "load_earth_relief" /\ pc = "which"
    /\ registration = Gridline /\ reg = <<"_", "g">>

\* C4: for a catalog code _shape_from_resolution returns
\* (648000 // seconds + 1, 1296000 // seconds + 1) with the seconds of arc
\* of the code; for any other code it raises GMTInvalidInput and returns
\* no shape.
C4_ShapeFormula ==
    (op = "_shape_from_resolution" /\ pc = "done") =>
        IF resolution \in Catalog14
        THEN /\ err = "none"
             /\ shape = << 648000 \div ExpectedSeconds(resolution) + 1,
                           1296000 \div ExpectedSeconds(resolution) + 1 >>
             /\ resolution = Str3("6", "0", "m") => shape = <<181, 361>>
             /\ resolution = Str3("3", "0", "m") => shape = <<361, 721>>
             /\ resolution = Str3("1", "0", "m") => shape = <<1081, 2161>>
             /\ resolution = Str3("3", "0", "s") => shape = <<21601, 43201>>
             /\ resolution = Str3("1", "5", "s") => shape = <<43201, 86401>>
        ELSE err = "GMTInvalidInput" /\ shape = <<>>

C4_Witness ==
    /\ op = "_shape_from_resolution" /\ pc = "done"
    /\ resolution = Str3("1", "5", "s") /\ shape = <<43201, 86401>>

\* C5: for every catalog code _shape_from_resolution ends without error
\* with two positive integers (nlat, nlon) such that nlon = 2*(nlat-1) + 1.
C5_ShapeRelation ==
    (op = "_shape_from_resolution" /\ pc = "done" /\ resolution \in Catalog14) =>
        /\ err = "none"
        /\ Len(shape) = 2
        /\ shape[1] \in Nat \ {0} /\ shape[2] \in Nat \ {0}
        /\ shape[2] = 2 * (shape[1] - 1) + 1

C5_Witness ==
    /\ op = "_shape_from_resolution" /\ pc = "done"
    /\ resolution = Str3("0", "1", "d") /\ shape = <<181, 361>>

\* C6: surface invokes the engine only for an input classified as file,
\* matrix, or vectors with z present; an input classified as grid, or as
\* vectors without z, ends in GMTInvalidInput with the engine not invoked.
C6_SurfaceRejects ==
    op = "surface" =>
        /\ (pc = "engine" \/ InList("engine", trace)) =>
              \/ kind \in {"file", "matrix"}
              \/ kind = "vectors" /\ z # Absent
        /\ (kind = "grid" \/ (kind = "vectors" /\ z = Absent)) =>
              /\ pc = "done" /\ err = "GMTInvalidInput"
              /\ ~InList("engine", trace)

C6_Witness ==
    /\ op = "surface" /\ pc = "done"
    /\ kind = "vectors" /\ x # Absent /\ y # Absent /\ z = Absent
    /\ err = "GMTInvalidInput" /\ trace = <<>>

C8_MalformedRejected ==
    (op = "data_kind" /\ pc = "done"
        /\ \/ data # "None" /\ x # Absent
           \/ data = "None" /\ x = Absent /\ y = Absent
           \/ x # Absent /\ y = Absent) =>
        (err = "GMTInvalidInput" /\ kind = "none")

C8_Witness ==
    /\ op = "data_kind" /\ pc = "done"
    /\ data = "ndarray" /\ x # Absent /\ y # Absent
    /\ err = "GMTInvalidInput" /\ kind = "none"

\* C9: the resolutions load_earth_relief accepts are exactly the thirteen
\* its docstring lists.
C9_AcceptedAreDocumented ==
    (op = "load_earth_relief" /\ pc # "validate") =>
        (InList("resolution_ok", trace) <=> resolution \in Documented13)

\* C10: for every code that passes _is_valid_resolution the third
\* character is d, m or s, seconds is assigned and positive, and seconds
\* divides 648000 and 1296000, so floor division is exact.
C10_SecondsDivide ==
    (op = "_shape_from_resolution" /\ pc = "done" /\ err # "GMTInvalidInput") =>
        /\ Len(resolution) = 3
        /\ resolution[3] \in {"d", "m", "s"}
        /\ err = "none"
        /\ seconds # Unassigned /\ seconds \in Nat \ {0}
        /\ 648000 % seconds = 0 /\ 1296000 % seconds = 0
        /\ (shape[1] - 1) * seconds = 648000
        /\ (shape[2] - 1) * seconds = 1296000

C10_Witness ==
    /\ op = "_shape_from_resolution" /\ pc = "done"
    /\ resolution = Str3("0", "4", "m") /\ seconds = 240 /\ err = "none"

====
